---- MODULE Spec2Model ----
(***************************************************************************)
(* Faceted aggregation of EPrint records: eprintviews/aggregator.py.       *)
(*                                                                         *)
(* A Python string is a sequence of one-character strings, so that         *)
(* slicing, strip, replace, capitalize, int() and the lexicographic        *)
(* comparison of str are computed and not assumed.  A Python dict is a     *)
(* TLA+ record whose DOMAIN is the set of keys present, so `'date' in obj` *)
(* is "date" \in DOMAIN obj.  A dict used as an accumulator (insertion     *)
(* ordered) is a sequence of entries [k |-> key, v |-> descriptor].  The   *)
(* objects list of a group descriptor holds references to the records of   *)
(* self.objs: a reference is the position of the record in objs.           *)
(***************************************************************************)
EXTENDS Integers, Sequences, FiniteSets, TLC

VARIABLES objs, facet, outcome, result, today, subject_map, previous

vars == <<objs, facet, outcome, result, today, subject_map, previous>>

(* Longest record sequence handed to the Aggregator. *)
MaxObjs == 3

-----------------------------------------------------------------------------
(* str *)

(* The characters used, listed in code point order. *)
CodePoints ==
    << " ", "+", "-", "/", "0", "1", "2", "3", "4", "5", "6", "7", "8", "9",
       ":", "A", "B", "C", "T", "X", "Z", "_", "a", "b", "c", "x" >>

Ord(c) == CHOOSE i \in 1..Len(CodePoints) : CodePoints[i] = c

Digits == << "0", "1", "2", "3", "4", "5", "6", "7", "8", "9" >>

IsDigit(c) == \E i \in 1..10 : Digits[i] = c

DigitValue(c) == (CHOOSE i \in 1..10 : Digits[i] = c) - 1

LowerCase == << "a", "b", "c", "x" >>
UpperCase == << "A", "B", "C", "X" >>

upper(c) ==
    IF \E i \in 1..Len(LowerCase) : LowerCase[i] = c
    THEN UpperCase[CHOOSE i \in 1..Len(LowerCase) : LowerCase[i] = c]
    ELSE c

lower(c) ==
    IF \E i \in 1..Len(UpperCase) : UpperCase[i] = c
    THEN LowerCase[CHOOSE i \in 1..Len(UpperCase) : UpperCase[i] = c]
    ELSE c

Min(a, b) == IF a <= b THEN a ELSE b

(* s[0:n] *)
Slice(s, n) == SubSeq(s, 1, Min(n, Len(s)))

(* s.strip(): the only whitespace character used is the space *)
strip(s) ==
    LET keep == { i \in 1..Len(s) : s[i] # " " }
    IN  IF keep = {} THEN << >>
        ELSE LET lo == CHOOSE i \in keep : \A j \in keep : i <= j
                 hi == CHOOSE i \in keep : \A j \in keep : j <= i
             IN  SubSeq(s, lo, hi)

(* a < b on str: the first differing character decides, a proper prefix is smaller *)
StrLess(a, b) ==
    \E k \in 1..Len(b) :
        /\ k <= Len(a) + 1
        /\ \A j \in 1..(k - 1) : a[j] = b[j]
        /\ \/ k = Len(a) + 1
           \/ Ord(a[k]) < Ord(b[k])

StrLessEq(a, b) == a = b \/ StrLess(a, b)

(* str(n) of a non-negative int *)
RECURSIVE IntToStr(_)
IntToStr(n) ==
    IF n < 10 THEN << Digits[n + 1] >>
    ELSE Append(IntToStr(n \div 10), Digits[(n % 10) + 1])

(* f"{v}" and str(v) of a str v are v; the fields of a record are str *)
Format(v) == v

(* int(s) raises ValueError where ParsesAsInt(s) is false.  int() strips     *)
(* whitespace, takes one optional sign and then decimal digits, which single *)
(* underscores may separate.                                                 *)
IntBody(s) ==
    LET t == strip(s)
    IN  IF t # << >> /\ t[1] \in {"+", "-"} THEN Tail(t) ELSE t

ParsesAsInt(s) ==
    LET b == IntBody(s)
    IN  /\ b # << >>
        /\ IsDigit(b[1])
        /\ IsDigit(b[Len(b)])
        /\ \A i \in 1..Len(b) : IsDigit(b[i]) \/ b[i] = "_"
        /\ \A i \in 1..(Len(b) - 1) : ~(b[i] = "_" /\ b[i + 1] = "_")

RECURSIVE DigitsValue(_)
DigitsValue(b) ==
    IF b = << >> THEN 0
    ELSE LET c == b[Len(b)]
             front == SubSeq(b, 1, Len(b) - 1)
         IN  IF c = "_" THEN DigitsValue(front)
             ELSE 10 * DigitsValue(front) + DigitValue(c)

StrToInt(s) ==
    LET t == strip(s)
        v == DigitsValue(IntBody(s))
    IN  IF t[1] = "-" THEN 0 - v ELSE v

-----------------------------------------------------------------------------
(* utility methods *)

slugify(s) ==
    [i \in 1..Len(s) |-> IF s[i] \in {" ", "/"} THEN "_" ELSE s[i]]

get_date_year(obj) ==
    IF "date" \in DOMAIN obj THEN strip(Slice(obj.date, 4)) ELSE << >>

get_eprint_id(obj) ==
    IF "eprint_id" \in DOMAIN obj THEN Format(obj.eprint_id) ELSE << >>

get_object_type(obj) ==
    IF "type" \in DOMAIN obj THEN Format(obj.type) ELSE << >>

has_creator_ids(obj) ==
    \E i \in 1..Len(obj.creators) : "id" \in DOMAIN obj.creators[i]

(* s.split('_'), capitalize() of every piece, ' '.join: the separators turn  *)
(* into spaces, the first character of a piece is upper-cased, the rest of   *)
(* the piece lower-cased.                                                    *)
make_label(s) ==
    [i \in 1..Len(s) |->
        IF s[i] = "_" THEN " "
        ELSE IF i = 1 \/ s[i - 1] = "_" THEN upper(s[i])
        ELSE lower(s[i])]

get_sort_name(o) == IF "sort_name" \in DOMAIN o THEN o.sort_name ELSE << >>

(* get_sort_year reading a key the year descriptor does not have *)
get_sort_year_wrong_key(o) == IF "date" \in DOMAIN o THEN o.date ELSE << >>

get_sort_year(o) == IF "year" \in DOMAIN o THEN o.year ELSE << >>

get_sort_subject(o) ==
    IF "subject_name" \in DOMAIN o THEN o.subject_name ELSE << >>

(* The second conjunct reads the undefined global `publication`: where the   *)
(* first conjunct is true the accessor raises NameError, else it returns ''. *)
get_sort_publication_raises(o) == "publication" \in DOMAIN o

get_sort_publication(o) == << >>

get_sort_collection(o) ==
    IF "collection" \in DOMAIN o THEN o.collection ELSE << >>

get_sort_event(o) ==
    IF "event_title" \in DOMAIN o THEN strip(o.event_title) ELSE << >>

get_lastmod_date(o) ==
    IF "lastmod" \in DOMAIN o THEN Slice(o.lastmod, 10) ELSE << >>

get_sort_lastmod(o) == IF "lastmod" \in DOMAIN o THEN o.lastmod ELSE << >>

get_sort_issn(o) == IF "issn" \in DOMAIN o THEN o.issn ELSE << >>

-----------------------------------------------------------------------------
(* dict accumulators and list.sort *)

DictHas(d, k) == \E j \in 1..Len(d) : d[j].k = k

DictIndex(d, k) == CHOOSE j \in 1..Len(d) : d[j].k = k

(* Accumulate with the count set on the first record of a group only *)
AccumulateCountOnce(d, k, fresh, i) ==
    LET isNew == ~DictHas(d, k)
        d1 == IF isNew THEN Append(d, [k |-> k, v |-> fresh]) ELSE d
        j  == DictIndex(d1, k)
    IN  [d1 EXCEPT ![j].v.count = IF isNew THEN 1 ELSE @,
                   ![j].v.objects = Append(@, i)]

(* Accumulate with the record put at the front of the objects list *)
AccumulatePrepend(d, k, fresh, i) ==
    LET d1 == IF DictHas(d, k) THEN d ELSE Append(d, [k |-> k, v |-> fresh])
        j  == DictIndex(d1, k)
    IN  [d1 EXCEPT ![j].v.count = @ + 1, ![j].v.objects = << i >> \o @]

(* The body every facet loop ends with:                                     *)
(*     if not k in d: d[k] = fresh                                          *)
(*     d[k]['count'] += 1                                                   *)
(*     d[k]['objects'].append(obj)                                          *)
(* where obj is the record at position i of self.objs.                      *)
Accumulate(d, k, fresh, i) ==
    LET d1 == IF DictHas(d, k) THEN d ELSE Append(d, [k |-> k, v |-> fresh])
        j  == DictIndex(d1, k)
    IN  [d1 EXCEPT ![j].v.count = @ + 1, ![j].v.objects = Append(@, i)]

(* for key in d: l.append(d[key]) -- a dict iterates in insertion order *)
Values(d) == [j \in 1..Len(d) |-> d[j].v]

(* list.sort(key = ..., reverse = ...) is a stable sort: keys[i] is the key  *)
(* of l[i]; with reverse the order of the keys is inverted and elements with *)
(* equal keys still keep their original order.                               *)
Sorted(l, keys, reverse) ==
    LET Before(j, i) ==
            \/ IF reverse THEN StrLess(keys[i], keys[j])
                          ELSE StrLess(keys[j], keys[i])
            \/ keys[j] = keys[i] /\ j < i
        place == [i \in 1..Len(l) |->
                     1 + Cardinality({ j \in 1..Len(l) : Before(j, i) })]
    IN  [p \in 1..Len(l) |-> l[CHOOSE i \in 1..Len(l) : place[i] = p]]

(* list.sort(key = lambda x: int(x['key'])): keys are ints *)
SortedInt(l, keys) ==
    LET Before(j, i) == keys[j] < keys[i] \/ (keys[j] = keys[i] /\ j < i)
        place == [i \in 1..Len(l) |->
                     1 + Cardinality({ j \in 1..Len(l) : Before(j, i) })]
    IN  [p \in 1..Len(l) |-> l[CHOOSE i \in 1..Len(l) : place[i] = p]]

(* What a call gives its caller: the returned list, or the exception raised. *)
Return(l) == [outcome |-> "ok", value |-> l]

Raise(e) == [outcome |-> e, value |-> << >>]

-----------------------------------------------------------------------------
(* Aggregator.aggregate_year *)

RECURSIVE scan_year(_, _, _)
scan_year(os, i, years) ==
    IF i > Len(os) THEN years
    ELSE IF "date" \in DOMAIN os[i]
    THEN LET year == strip(Slice(os[i].date, 4))
         IN  scan_year(os, i + 1,
                 Accumulate(years, year,
                     [key |-> year, label |-> year, count |-> 0,
                      year |-> year, objects |-> << >>], i))
    ELSE scan_year(os, i + 1, years)

aggregate_year(os) ==
    LET year_list == Values(scan_year(os, 1, << >>))
        keys == [j \in 1..Len(year_list) |-> get_sort_year(year_list[j])]
    IN  Return(Sorted(year_list, keys, TRUE))

-----------------------------------------------------------------------------
(* Aggregator.aggregate_people *)

(* for creator in obj['creators']: creator['id'] and creator['display_name'] *)
(* raise KeyError on a creator that lacks the key.                           *)
RECURSIVE scan_creators(_, _, _, _)
scan_creators(creators, c, i, people) ==
    IF c > Len(creators) THEN [err |-> "", d |-> people]
    ELSE IF "id" \notin DOMAIN creators[c] THEN [err |-> "KeyError", d |-> people]
    ELSE IF "display_name" \notin DOMAIN creators[c]
    THEN [err |-> "KeyError", d |-> people]
    ELSE LET creator_id == creators[c].id
             creator_name == creators[c].display_name
         IN  scan_creators(creators, c + 1, i,
                 Accumulate(people, creator_id,
                     [key |-> creator_id, label |-> creator_name, count |-> 0,
                      people_id |-> creator_id, sort_name |-> creator_name,
                      objects |-> << >>], i))

(* has_creator_ids reads obj['creators']: KeyError on a record without it *)
RECURSIVE scan_people(_, _, _)
scan_people(os, i, people) ==
    IF i > Len(os) THEN [err |-> "", d |-> people]
    ELSE IF "creators" \notin DOMAIN os[i] THEN [err |-> "KeyError", d |-> people]
    ELSE IF has_creator_ids(os[i])
    THEN LET r == scan_creators(os[i].creators, 1, i, people)
         IN  IF r.err # "" THEN r ELSE scan_people(os, i + 1, r.d)
    ELSE scan_people(os, i + 1, people)

aggregate_people(os) ==
    LET r == scan_people(os, 1, << >>)
        people_list == Values(r.d)
        keys == [j \in 1..Len(people_list) |-> get_sort_name(people_list[j])]
    IN  IF r.err # "" THEN Raise(r.err)
        ELSE Return(Sorted(people_list, keys, FALSE))

aggregate_person_az(os) == aggregate_people(os)

aggregate_person(os) == aggregate_people(os)

aggregate_author(os) == aggregate_people(os)

-----------------------------------------------------------------------------
(* Aggregator.aggregate_publication *)

RECURSIVE scan_publication(_, _, _)
scan_publication(os, i, publications) ==
    IF i > Len(os) THEN publications
    ELSE IF "publication" \in DOMAIN os[i]
    THEN LET year == get_date_year(os[i])
             publication == os[i].publication
             key == slugify(publication)
         IN  scan_publication(os, i + 1,
                 Accumulate(publications, publication,
                     [key |-> key, label |-> Format(publication), count |-> 0,
                      year |-> year, objects |-> << >>], i))
    ELSE scan_publication(os, i + 1, publications)

aggregate_publication(os) ==
    LET publication_list == Values(scan_publication(os, 1, << >>))
        n == Len(publication_list)
        keys == [j \in 1..n |-> get_sort_publication(publication_list[j])]
    IN  IF \E j \in 1..n : get_sort_publication_raises(publication_list[j])
        THEN Raise("NameError")
        ELSE Return(Sorted(publication_list, keys, FALSE))

-----------------------------------------------------------------------------
(* Aggregator.aggregate_issn *)

RECURSIVE scan_issn(_, _, _)
scan_issn(os, i, issns) ==
    IF i > Len(os) THEN issns
    ELSE IF "issn" \in DOMAIN os[i]
    THEN LET year == get_date_year(os[i])
             issn == os[i].issn
         IN  scan_issn(os, i + 1,
                 Accumulate(issns, issn,
                     [key |-> Format(issn), label |-> Format(issn), count |-> 0,
                      year |-> year, objects |-> << >>], i))
    ELSE scan_issn(os, i + 1, issns)

aggregate_issn(os) ==
    LET issn_list == Values(scan_issn(os, 1, << >>))
        keys == [j \in 1..Len(issn_list) |-> get_sort_issn(issn_list[j])]
    IN  Return(Sorted(issn_list, keys, FALSE))

-----------------------------------------------------------------------------
(* Aggregator.aggregate_collection *)

RECURSIVE scan_collection(_, _, _)
scan_collection(os, i, collections) ==
    IF i > Len(os) THEN collections
    ELSE IF "collection" \in DOMAIN os[i]
    THEN LET year == get_date_year(os[i])
             collection == os[i].collection
             key == slugify(collection)
         IN  scan_collection(os, i + 1,
                 Accumulate(collections, collection,
                     [key |-> key, label |-> collection, count |-> 0,
                      year |-> year, objects |-> << >>], i))
    ELSE scan_collection(os, i + 1, collections)

aggregate_collection(os) ==
    LET collection_list == Values(scan_collection(os, 1, << >>))
        keys == [j \in 1..Len(collection_list) |->
                    get_sort_collection(collection_list[j])]
    IN  Return(Sorted(collection_list, keys, FALSE))

-----------------------------------------------------------------------------
(* Aggregator.aggregate_event *)

RECURSIVE scan_event(_, _, _)
scan_event(os, i, events) ==
    IF i > Len(os) THEN events
    ELSE LET year == get_date_year(os[i])
             event_title == IF "event_title" \in DOMAIN os[i]
                            THEN os[i].event_title ELSE << >>
             key == slugify(event_title)
         IN  scan_event(os, i + 1,
                 Accumulate(events, event_title,
                     [key |-> key, label |-> event_title, count |-> 0,
                      year |-> year, objects |-> << >>], i))

aggregate_event(os) ==
    LET event_list == Values(scan_event(os, 1, << >>))
        keys == [j \in 1..Len(event_list) |-> get_sort_event(event_list[j])]
    IN  Return(Sorted(event_list, keys, FALSE))

-----------------------------------------------------------------------------
(* Aggregator.aggregate_subjects *)

(* The subject directory: a map from the subject codes it knows to their     *)
(* names; get_subject gives None for a code it does not know.                *)
get_subject_is_none(sm, subj) == subj \notin DOMAIN sm

get_subject(sm, subj) == sm[subj]

(* scan_items leaving the loop after the first code the directory resolves *)
RECURSIVE scan_items_first_only(_, _, _, _, _)
scan_items_first_only(items, s, i, subjects, sm) ==
    IF s > Len(items) THEN subjects
    ELSE LET subj == items[s]
         IN  IF ~get_subject_is_none(sm, subj)
             THEN LET subject_name == get_subject(sm, subj)
                  IN  Accumulate(subjects, subj,
                          [key |-> subj, label |-> subject_name,
                           count |-> 0, subject_id |-> subj,
                           subject_name |-> subject_name,
                           objects |-> << >>], i)
             ELSE scan_items_first_only(items, s + 1, i, subjects, sm)

(* for subj in obj['subjects']['items'] *)
RECURSIVE scan_items(_, _, _, _, _)
scan_items(items, s, i, subjects, sm) ==
    IF s > Len(items) THEN subjects
    ELSE LET subj == items[s]
         IN  IF ~get_subject_is_none(sm, subj)
             THEN LET subject_name == get_subject(sm, subj)
                  IN  scan_items(items, s + 1, i,
                          Accumulate(subjects, subj,
                              [key |-> subj, label |-> subject_name,
                               count |-> 0, subject_id |-> subj,
                               subject_name |-> subject_name,
                               objects |-> << >>], i), sm)
             ELSE scan_items(items, s + 1, i, subjects, sm)

(* obj['subjects']['items'] raises KeyError on a subjects value without items *)
RECURSIVE scan_subjects(_, _, _, _)
scan_subjects(os, i, subjects, sm) ==
    IF i > Len(os) THEN [err |-> "", d |-> subjects]
    ELSE IF "subjects" \in DOMAIN os[i]
    THEN IF "items" \notin DOMAIN os[i].subjects
         THEN [err |-> "KeyError", d |-> subjects]
         ELSE scan_subjects(os, i + 1,
                  scan_items(os[i].subjects.items, 1, i, subjects, sm), sm)
    ELSE scan_subjects(os, i + 1, subjects, sm)

aggregate_subjects(os, sm) ==
    LET r == scan_subjects(os, 1, << >>, sm)
        subject_list == Values(r.d)
        keys == [j \in 1..Len(subject_list) |->
                    get_sort_subject(subject_list[j])]
    IN  IF r.err # "" THEN Raise(r.err)
        ELSE Return(Sorted(subject_list, keys, FALSE))

-----------------------------------------------------------------------------
(* Aggregator.aggregate_ids *)

RECURSIVE scan_ids(_, _, _)
scan_ids(os, i, ids) ==
    IF i > Len(os) THEN ids
    ELSE LET eprint_id == get_eprint_id(os[i])
         IN  scan_ids(os, i + 1,
                 Accumulate(ids, eprint_id,
                     [key |-> eprint_id, label |-> eprint_id,
                      eprint_id |-> eprint_id, count |-> 0,
                      objects |-> << >>], i))

(* aggregate_ids with the sort key x['key'], a str *)
aggregate_ids_lexicographic(os) ==
    LET ids_list == Values(scan_ids(os, 1, << >>))
        n == Len(ids_list)
    IN  IF \E j \in 1..n : ~ParsesAsInt(ids_list[j].key)
        THEN Raise("ValueError")
        ELSE Return(Sorted(ids_list, [j \in 1..n |-> ids_list[j].key], FALSE))

(* The sort key int(x['key']) is computed for every element of the list, a   *)
(* single one included; a ValueError of int() leaves the sort.               *)
aggregate_ids(os) ==
    LET ids_list == Values(scan_ids(os, 1, << >>))
        n == Len(ids_list)
    IN  IF \E j \in 1..n : ~ParsesAsInt(ids_list[j].key)
        THEN Raise("ValueError")
        ELSE Return(SortedInt(ids_list,
                        [j \in 1..n |-> StrToInt(ids_list[j].key)]))

-----------------------------------------------------------------------------
(* Aggregator.aggregate_types *)

RECURSIVE scan_types(_, _, _)
scan_types(os, i, types) ==
    IF i > Len(os) THEN types
    ELSE LET o_type == get_object_type(os[i])
             label == make_label(o_type)
         IN  scan_types(os, i + 1,
                 Accumulate(types, o_type,
                     [key |-> o_type, label |-> label, type |-> o_type,
                      count |-> 0, objects |-> << >>], i))

aggregate_types(os) ==
    LET type_list == Values(scan_types(os, 1, << >>))
        keys == [j \in 1..Len(type_list) |-> type_list[j].key]
    IN  Return(Sorted(type_list, keys, FALSE))

-----------------------------------------------------------------------------
(* datetime.date *)

IsLeap(y) == (y % 4 = 0 /\ y % 100 # 0) \/ y % 400 = 0

DaysInMonth(y, m) ==
    IF m = 2 THEN (IF IsLeap(y) THEN 29 ELSE 28)
    ELSE IF m \in {4, 6, 9, 11} THEN 30 ELSE 31

NextDay(t) ==
    IF t.d < DaysInMonth(t.y, t.m) THEN [t EXCEPT !.d = @ + 1]
    ELSE IF t.m < 12 THEN [y |-> t.y, m |-> t.m + 1, d |-> 1]
    ELSE [y |-> t.y + 1, m |-> 1, d |-> 1]

PrevDay(t) ==
    IF t.d > 1 THEN [t EXCEPT !.d = @ - 1]
    ELSE IF t.m > 1
    THEN [y |-> t.y, m |-> t.m - 1, d |-> DaysInMonth(t.y, t.m - 1)]
    ELSE [y |-> t.y - 1, m |-> 12, d |-> 31]

RECURSIVE PlusDays(_, _)
PlusDays(t, n) ==
    IF n = 0 THEN t
    ELSE IF n > 0 THEN PlusDays(NextDay(t), n - 1)
    ELSE PlusDays(PrevDay(t), n + 1)

(* date - timedelta(days = n) *)
DateMinus(t, days) == PlusDays(t, 0 - days)

Pad(s, width) == IF Len(s) < width THEN [i \in 1..(width - Len(s)) |-> "0"] \o s ELSE s

(* date.isoformat(): YYYY-MM-DD *)
isoformat(t) ==
    Pad(IntToStr(t.y), 4) \o << "-" >> \o Pad(IntToStr(t.m), 2)
        \o << "-" >> \o Pad(IntToStr(t.d), 2)

-----------------------------------------------------------------------------
(* Aggregator.aggregate_latest *)

(* td = timedelta(days = -7) *)
td == -7

(* A record inside the window with `key not in latest` runs                  *)
(* `lastest[lastmod] = {...}`: the name lastest is bound nowhere, NameError. *)
(* With key in latest the code goes on to latest[lastmod], a KeyError where   *)
(* the accumulator has no such key.                                          *)
RECURSIVE scan_latest(_, _, _, _)
scan_latest(os, i, latest, seven_days_ago) ==
    IF i > Len(os) THEN [err |-> "", d |-> latest]
    ELSE LET lastmod == get_lastmod_date(os[i])
         IN  IF lastmod # << >> /\ StrLessEq(seven_days_ago, lastmod)
             THEN LET key == get_sort_lastmod(os[i])
                  IN  IF ~DictHas(latest, key)
                      THEN [err |-> "NameError", d |-> latest]
                      ELSE IF ~DictHas(latest, lastmod)
                      THEN [err |-> "KeyError", d |-> latest]
                      ELSE scan_latest(os, i + 1,
                               Accumulate(latest, lastmod, << >>, i),
                               seven_days_ago)
             ELSE scan_latest(os, i + 1, latest, seven_days_ago)

aggregate_latest(os, date_today) ==
    LET seven_days_ago == isoformat(DateMinus(date_today, td))
        r == scan_latest(os, 1, << >>, seven_days_ago)
        latest_list == Values(r.d)
        keys == [j \in 1..Len(latest_list) |-> latest_list[j].key]
    IN  IF r.err # "" THEN Raise(r.err)
        ELSE Return(Sorted(latest_list, keys, TRUE))

-----------------------------------------------------------------------------
(* The records handed to the Aggregator.  Every pool holds the record with   *)
(* no field at all, records that differ in one field, and for the facets     *)
(* that copy the year into the descriptor a record that also has a date.     *)

EmptyRecord == [k \in {} |-> << >>]

DateRecords ==
    { EmptyRecord,
      [date |-> << "2", "0", "2", "0", "-", "0", "6", "-", "0", "1" >>],
      [date |-> << "2", "0", "1", "9" >>],
      [date |-> << "2", "0", "2", "1", "-", "0", "1", "-", "0", "1" >>],
      [date |-> << "2", "0", "2", " " >>],
      [date |-> << "2", "0", "2" >>] }

PublicationRecords ==
    { EmptyRecord,
      [publication |-> << "a", " ", "b" >>],
      [publication |-> << "a", "/", "b" >>],
      [publication |-> << "a", "_", "b" >>],
      [publication |-> << "B" >>],
      [publication |-> << "a", " ", "b" >>, date |-> << "2", "0", "2", "0", "-", "0", "6", "-", "0", "1" >>] }

IssnRecords ==
    { EmptyRecord,
      [issn |-> << "2" >>],
      [issn |-> << "1", "0" >>],
      [issn |-> << "1" >>],
      [issn |-> << "0", "-", "1" >>],
      [issn |-> << "1" >>, date |-> << "2", "0", "2", "0", "-", "0", "6", "-", "0", "1" >>] }

CollectionRecords ==
    { EmptyRecord,
      [collection |-> << "b", " ", "a" >>],
      [collection |-> << "b", "/", "a" >>],
      [collection |-> << "a" >>],
      [collection |-> << "c" >>],
      [collection |-> << "b", " ", "a" >>, date |-> << "2", "0", "2", "0", "-", "0", "6", "-", "0", "1" >>] }

EventRecords ==
    { EmptyRecord,
      [event_title |-> << "b" >>],
      [event_title |-> << " ", "a" >>],
      [event_title |-> << "a" >>],
      [event_title |-> << "a", " ", "b" >>],
      [event_title |-> << "a", "/", "b" >>],
      [event_title |-> << "b" >>, date |-> << "2", "0", "2", "0", "-", "0", "6", "-", "0", "1" >>] }

IdRecords ==
    { EmptyRecord,
      [eprint_id |-> << "1", "0" >>],
      [eprint_id |-> << "2" >>],
      [eprint_id |-> << "3", "3" >>],
      [eprint_id |-> << "0", "2" >>],
      [eprint_id |-> << "x", "1" >>] }

TypeRecords ==
    { EmptyRecord,
      [type |-> << "a", "_", "b" >>],
      [type |-> << "a", "b" >>],
      [type |-> << "b" >>],
      [type |-> << "A", "b" >>],
      [type |-> << "b" >>, date |-> << "2", "0", "2", "0", "-", "0", "6", "-", "0", "1" >>] }

LastmodRecords ==
    { EmptyRecord,
      [lastmod |-> << "2", "0", "2", "4", "-", "0", "1", "-", "1", "0", "T", "0", "0", ":", "0", "0", ":", "0", "0", "Z" >>],
      [lastmod |-> << "2", "0", "2", "3", "-", "0", "1", "-", "0", "1", "T", "0", "0", ":", "0", "0", ":", "0", "0", "Z" >>],
      [lastmod |-> << "2", "0", "2", "4", "-", "0", "1", "-", "1", "9", "T", "0", "0", ":", "0", "0", ":", "0", "0", "Z" >>],
      [lastmod |-> << "2", "0", "2", "4", "-", "0", "3", "-", "0", "3", "T", "0", "8", ":", "0", "0", ":", "0", "0", "Z" >>],
      [lastmod |-> << "2", "0", "2", "4", "-", "0", "1", "-", "0", "5" >>] }

Creator1 == [id |-> << "a" >>, display_name |-> << "B" >>]
Creator2 == [id |-> << "b" >>, display_name |-> << "A" >>]
NoIdCreator == [display_name |-> << "C" >>]
NoNameCreator == [id |-> << "c" >>]
RenamedCreator1 == [id |-> << "a" >>, display_name |-> << "X" >>]

CreatorRecords ==
    { EmptyRecord,
      [creators |-> << >>],
      [creators |-> << Creator1 >>],
      [creators |-> << Creator2, Creator1 >>],
      [creators |-> << NoIdCreator >>],
      [creators |-> << Creator1, NoIdCreator >>],
      [creators |-> << NoNameCreator >>],
      [creators |-> << RenamedCreator1 >>] }

SubjectRecords ==
    { EmptyRecord,
      [subjects |-> [items |-> << << "a" >> >>]],
      [subjects |-> [items |-> << << "a" >>, << "b" >> >>]],
      [subjects |-> [items |-> << << "x" >> >>]],
      [subjects |-> [items |-> << << "x" >>, << "b" >> >>]],
      [subjects |-> EmptyRecord] }

Pools ==
    { DateRecords, PublicationRecords, IssnRecords, CollectionRecords,
      EventRecords, IdRecords, TypeRecords, LastmodRecords, CreatorRecords,
      SubjectRecords }

(* The subject directories: code -> name *)
SubjectMaps ==
    { (<< "a" >> :> << "C" >>) @@ (<< "b" >> :> << "A" >>),
      (<< "a" >> :> << "B" >>) }

(* The dates date.today() gives *)
Todays ==
    { [y |-> 2024, m |-> 1, d |-> 12],
      [y |-> 2024, m |-> 2, d |-> 25],
      [y |-> 2023, m |-> 12, d |-> 28] }

(* The value of today and of subject_map on a call that reads neither *)
NoDate == [y |-> 0, m |-> 0, d |-> 0]

NoMap == [k \in {} |-> << >>]

SeqsUpTo(S, n) == UNION { [1..k -> S] : k \in 0..n }

-----------------------------------------------------------------------------
(* Aggregator.__init__ and the calls of its methods *)

Init ==
    /\ \E pool \in Pools : objs \in SeqsUpTo(pool, MaxObjs)
    /\ facet = "none"
    /\ outcome = "none"
    /\ result = << >>
    /\ today = NoDate
    /\ subject_map = NoMap
    /\ previous = [objs |-> objs, outcome |-> "none", value |-> << >>]

(* The call made now is the call made last: the same method, on the same     *)
(* current date and with the same subject directory.                        *)
SameCall(name, date_today, sm) ==
    facet = name /\ today = date_today /\ subject_map = sm

(* What a call remembers of the state it started in: the record sequence,    *)
(* and what the call before it gave where that was the same call.            *)
Remember(name, date_today, sm) ==
    IF SameCall(name, date_today, sm)
    THEN [objs |-> objs, outcome |-> outcome, value |-> result]
    ELSE [objs |-> objs, outcome |-> "none", value |-> << >>]

(* Call with a scan that takes the records off self.objs (objs.pop(0)) *)
CallConsuming(name, r, date_today, sm) ==
    /\ facet' = name
    /\ outcome' = r.outcome
    /\ result' = r.value
    /\ today' = date_today
    /\ subject_map' = sm
    /\ previous' = Remember(name, date_today, sm)
    /\ objs' = IF objs = << >> THEN objs ELSE Tail(objs)

(* A call of method name that gave r: the outcome and the value returned.    *)
(* No method assigns to self.objs or to a record.                            *)
Call(name, r, date_today, sm) ==
    /\ facet' = name
    /\ outcome' = r.outcome
    /\ result' = r.value
    /\ today' = date_today
    /\ subject_map' = sm
    /\ previous' = Remember(name, date_today, sm)
    /\ UNCHANGED objs

call_aggregate_people == Call("people", aggregate_people(objs), NoDate, NoMap)

call_aggregate_person_az ==
    Call("person_az", aggregate_person_az(objs), NoDate, NoMap)

call_aggregate_person == Call("person", aggregate_person(objs), NoDate, NoMap)

call_aggregate_author == Call("author", aggregate_author(objs), NoDate, NoMap)

call_aggregate_year == Call("year", aggregate_year(objs), NoDate, NoMap)

call_aggregate_publication ==
    Call("publication", aggregate_publication(objs), NoDate, NoMap)

call_aggregate_issn == Call("issn", aggregate_issn(objs), NoDate, NoMap)

call_aggregate_collection ==
    Call("collection", aggregate_collection(objs), NoDate, NoMap)

call_aggregate_event == Call("event", aggregate_event(objs), NoDate, NoMap)

call_aggregate_subjects ==
    \E sm \in SubjectMaps :
        Call("subjects", aggregate_subjects(objs, sm), NoDate, sm)

call_aggregate_ids == Call("ids", aggregate_ids(objs), NoDate, NoMap)

call_aggregate_types == Call("types", aggregate_types(objs), NoDate, NoMap)

call_aggregate_latest ==
    \E date_today \in Todays :
        Call("latest", aggregate_latest(objs, date_today), date_today, NoMap)

Next ==
    \/ call_aggregate_people
    \/ call_aggregate_person_az
    \/ call_aggregate_person
    \/ call_aggregate_author
    \/ call_aggregate_year
    \/ call_aggregate_publication
    \/ call_aggregate_issn
    \/ call_aggregate_collection
    \/ call_aggregate_event
    \/ call_aggregate_subjects
    \/ call_aggregate_ids
    \/ call_aggregate_types
    \/ call_aggregate_latest

Spec == Init /\ [][Next]_vars

-----------------------------------------------------------------------------
(* Properties of the result of the last call *)

Groups == 1..Len(result)

(* The places <<group, position>> of the result that hold record i of objs *)
Places(i) ==
    UNION { { << g, p >> : p \in { q \in 1..Len(result[g].objects) :
                                        result[g].objects[q] = i } } :
            g \in Groups }

GroupsOf(i) == { gp[1] : gp \in Places(i) }

Keys == [g \in Groups |-> result[g].key]

PeopleFacets == {"people", "person_az", "person", "author"}

SingleValuedFacets ==
    {"year", "publication", "issn", "collection", "event", "types", "ids"}

(* The field of a record a single-valued facet groups on *)
FacetField(f) ==
    CASE f = "year" -> "date"
      [] f = "publication" -> "publication"
      [] f = "issn" -> "issn"
      [] f = "collection" -> "collection"
      [] f = "event" -> "event_title"
      [] f = "types" -> "type"
      [] f = "ids" -> "eprint_id"

(* C1: whenever a facet call returns, every group descriptor of the result   *)
(* has count equal to the length of its objects list, and at least 1.        *)
C1_CountIsLenObjects ==
    outcome = "ok" =>
        \A g \in Groups :
            /\ result[g].count = Len(result[g].objects)
            /\ result[g].count >= 1

(* A returned group that holds more than one record *)
C1_Witness ==
    /\ facet = "people"
    /\ outcome = "ok"
    /\ \E g \in Groups : result[g].count = 2 /\ Len(result[g].objects) = 2

(* C2: within the result of one facet call the key values of the group       *)
(* descriptors are pairwise distinct.                                        *)
C2_KeysDistinct ==
    outcome = "ok" =>
        \A g, h \in Groups : g # h => result[g].key # result[h].key

(* C3: in the result of a single-valued facet (year, publication, issn,      *)
(* collection, event, type, id) every record occurrence that has the facet's *)
(* field is in the objects of exactly one group, once, and the records of a  *)
(* group are in the order of the input.                                      *)
C3_ExactlyOneGroupInScanOrder ==
    (facet \in SingleValuedFacets /\ outcome = "ok") =>
        /\ \A i \in 1..Len(objs) :
               FacetField(facet) \in DOMAIN objs[i] => Cardinality(Places(i)) = 1
        /\ \A g \in Groups :
               \A p, q \in 1..Len(result[g].objects) :
                   p < q => result[g].objects[p] < result[g].objects[q]

(* Two groups, one of them holding the first and the third record *)
C3_Witness ==
    /\ facet = "issn"
    /\ outcome = "ok"
    /\ Len(result) = 2
    /\ \E g \in Groups : result[g].objects = << 1, 3 >>
    /\ \A i \in 1..Len(objs) : "issn" \in DOMAIN objs[i]

(* C4: aggregate_year returns; a record without date is in no group, a record *)
(* with date is in the group whose key is the first 4 characters of the date, *)
(* trimmed, and in no other; the groups are in strictly descending order of   *)
(* the year string.                                                          *)
C4_YearGroupsDescending ==
    facet = "year" =>
        /\ outcome = "ok"
        /\ \A i \in 1..Len(objs) :
               IF "date" \in DOMAIN objs[i]
               THEN \E g \in Groups :
                        /\ GroupsOf(i) = {g}
                        /\ result[g].key = strip(Slice(objs[i].date, 4))
               ELSE GroupsOf(i) = {}
        /\ \A g \in Groups : result[g].objects # << >>
        /\ \A g, h \in Groups : g < h => StrLess(result[h].key, result[g].key)

(* Years 2020, 2019, 2021 in the input, groups 2021, 2020, 2019 in the result *)
C4_Witness ==
    /\ facet = "year"
    /\ Len(objs) = 3
    /\ \A i \in 1..3 : "date" \in DOMAIN objs[i]
    /\ [i \in 1..3 |-> Slice(objs[i].date, 4)] =
           << << "2", "0", "2", "0" >>, << "2", "0", "1", "9" >>,
              << "2", "0", "2", "1" >> >>
    /\ Keys = << << "2", "0", "2", "1" >>, << "2", "0", "2", "0" >>,
                 << "2", "0", "1", "9" >> >>

(* A numeric identifier: decimal digits only, at least one *)
IsNumeric(s) == s # << >> /\ \A j \in 1..Len(s) : IsDigit(s[j])

RECURSIVE NumericValue(_)
NumericValue(s) ==
    IF s = << >> THEN 0
    ELSE 10 * NumericValue(SubSeq(s, 1, Len(s) - 1)) + DigitValue(s[Len(s)])

AllIdsNumeric ==
    \A i \in 1..Len(objs) :
        "eprint_id" \in DOMAIN objs[i] /\ IsNumeric(objs[i].eprint_id)

(* C5: when every record carries a numeric eprint_id, aggregate_ids returns   *)
(* one group per distinct identifier, every record in the group of its       *)
(* identifier, the groups ascending by the integer value of the identifier.  *)
C5_IdsNumericOrder ==
    (facet = "ids" /\ AllIdsNumeric) =>
        /\ outcome = "ok"
        /\ Len(result) = Cardinality({ objs[i].eprint_id : i \in 1..Len(objs) })
        /\ \A i \in 1..Len(objs) :
               \E g \in Groups :
                   GroupsOf(i) = {g} /\ result[g].key = objs[i].eprint_id
        /\ \A g, h \in Groups :
               g < h => NumericValue(result[g].key) <= NumericValue(result[h].key)

(* Identifiers 10, 2, 33 in the input, groups 2, 10, 33 in the result *)
C5_Witness ==
    /\ facet = "ids"
    /\ AllIdsNumeric
    /\ [i \in 1..Len(objs) |-> objs[i].eprint_id] =
           << << "1", "0" >>, << "2" >>, << "3", "3" >> >>
    /\ Keys = << << "2" >>, << "1", "0" >>, << "3", "3" >> >>

(* C6: every facet call other than the identifier facet returns, whatever     *)
(* fields the records lack.                                                  *)
C6_OnlyIdsMayFail ==
    facet \notin {"none", "ids"} => outcome = "ok"

(* C7: aggregate_ids fails exactly when the identifier of some record cannot  *)
(* be parsed as an integer; a record without eprint_id does not make it fail. *)
C7_IdsFailIffMalformed ==
    facet = "ids" =>
        (outcome # "ok" <=>
            \E i \in 1..Len(objs) :
                "eprint_id" \in DOMAIN objs[i] /\ ~ParsesAsInt(objs[i].eprint_id))

(* The creators of record i that carry both an id and a display name *)
IdentifiedCreators(i) ==
    { c \in 1..Len(objs[i].creators) :
        /\ "id" \in DOMAIN objs[i].creators[c]
        /\ "display_name" \in DOMAIN objs[i].creators[c] }

(* C8: on records that all have a creators list the contributor facet        *)
(* returns, a record is in the group of every creator of it that carries an  *)
(* id and a display name and in no other group, so a record with no          *)
(* identified creator is in none and a creator without id makes no group.    *)
C8_PeopleGroups ==
    (facet \in PeopleFacets /\ \A i \in 1..Len(objs) : "creators" \in DOMAIN objs[i]) =>
        /\ outcome = "ok"
        /\ \A i \in 1..Len(objs) :
               { result[g].key : g \in GroupsOf(i) } =
                   { objs[i].creators[c].id : c \in IdentifiedCreators(i) }

(* The label a facet is said to be sorted by *)
SortLabel(o) == IF facet = "event" THEN strip(o.label) ELSE o.label

(* C9: the publication, ISSN, collection and event facets return their       *)
(* groups in ascending order of the group label (of the trimmed event title). *)
C9_SortedByLabel ==
    (facet \in {"publication", "issn", "collection", "event"} /\ outcome = "ok") =>
        \A g, h \in Groups :
            g < h => StrLessEq(SortLabel(result[g]), SortLabel(result[h]))

(* C10: aggregate_latest returns, and a record is in the result exactly when  *)
(* the first 10 characters of its lastmod are non-empty and not smaller than  *)
(* the ISO date of 7 days before today.                                      *)
C10_LatestWindow ==
    facet = "latest" =>
        /\ outcome = "ok"
        /\ \A i \in 1..Len(objs) :
               GroupsOf(i) # {} <=>
                   /\ get_lastmod_date(objs[i]) # << >>
                   /\ StrLessEq(isoformat(DateMinus(today, 7)),
                                get_lastmod_date(objs[i]))

(* Every subjects value of the input has an items list *)
SubjectsHaveItems ==
    \A i \in 1..Len(objs) :
        "subjects" \in DOMAIN objs[i] => "items" \in DOMAIN objs[i].subjects

(* The codes of record i that the directory of the call resolves *)
ResolvedCodes(i) ==
    IF "subjects" \in DOMAIN objs[i] /\ "items" \in DOMAIN objs[i].subjects
    THEN { objs[i].subjects.items[s] : s \in
             { t \in 1..Len(objs[i].subjects.items) :
                 objs[i].subjects.items[t] \in DOMAIN subject_map } }
    ELSE {}

(* C11: aggregate_subjects returns when every subjects value has items; the   *)
(* result has one group per code that occurs in some record's subjects.items  *)
(* and that the directory resolves, and no other group; the label of a group  *)
(* is the resolved name; a record is in the group of each of its resolved     *)
(* codes and in no other; the groups are in ascending order of the label.     *)
C11_SubjectGroups ==
    facet = "subjects" =>
        /\ SubjectsHaveItems => outcome = "ok"
        /\ outcome = "ok" =>
            /\ { result[g].key : g \in Groups } =
                   UNION { ResolvedCodes(i) : i \in 1..Len(objs) }
            /\ \A g, h \in Groups : g # h => result[g].key # result[h].key
            /\ \A g \in Groups : result[g].label = subject_map[result[g].key]
            /\ \A i \in 1..Len(objs) :
                   { result[g].key : g \in GroupsOf(i) } = ResolvedCodes(i)
            /\ \A g, h \in Groups :
                   g < h => StrLessEq(result[g].label, result[h].label)

(* A record with two resolved codes and a record with an unknown code: two   *)
(* groups, code b (name A) before code a (name C)                            *)
C11_Witness ==
    /\ facet = "subjects"
    /\ outcome = "ok"
    /\ Len(objs) = 2
    /\ objs[1] = [subjects |-> [items |-> << << "a" >>, << "b" >> >>]]
    /\ objs[2] = [subjects |-> [items |-> << << "x" >>, << "b" >> >>]]
    /\ Keys = << << "b" >>, << "a" >> >>
    /\ result[1].label = << "A" >>
    /\ result[1].objects = << 1, 2 >>
    /\ result[2].objects = << 1 >>

(* The field of a record a facet groups on *)
GroupingField(f) ==
    CASE f \in PeopleFacets -> "creators"
      [] f = "subjects" -> "subjects"
      [] f = "latest" -> "lastmod"
      [] OTHER -> FacetField(f)

(* C12: in the result of a facet call a record that lacks the field the facet *)
(* groups on is in no group, except in the event facet, where a record        *)
(* without event_title is in the group whose key and label are ''.            *)
C12_MissingFieldSkipped ==
    (facet # "none" /\ outcome = "ok") =>
        \A i \in 1..Len(objs) :
            GroupingField(facet) \notin DOMAIN objs[i] =>
                IF facet = "event"
                THEN \E g \in Groups :
                         /\ GroupsOf(i) = {g}
                         /\ result[g].key = << >>
                         /\ result[g].label = << >>
                ELSE GroupsOf(i) = {}

====
